---- MODULE Spec2Model ----
(***************************************************************************)
(* Telugu Sandhi rule engine (src/src/sandhi_splitter.py) and the          *)
(* frequency-based disambiguator (src/train_pipeline.py).                  *)
(*                                                                         *)
(* A character is its Unicode code point; a Python str is the sequence of  *)
(* its code points.  Python indices are 0-based: At(s, i) is s[i] and      *)
(* Slice(s, a, b) is s[a:b].                                               *)
(***************************************************************************)
EXTENDS Integers, Sequences, FiniteSets, TLC

(***************************************************************************)
(* Python str and list primitives used by the source.                      *)
(***************************************************************************)
Min(a, b) == IF a <= b THEN a ELSE b

Range(s) == { s[n] : n \in DOMAIN s }

\* s[i], 0-based; like Python, out of range is an error (no negative index
\* is ever used by the source).
At(s, i) == s[i + 1]

\* s[a:b] for 0 <= a, with Python's clamping of the upper end.
Slice(s, a, b) == SubSeq(s, a + 1, Min(b, Len(s)))

\* s[a:]
From(s, a) == SubSeq(s, a + 1, Len(s))

\* s[:b]
Upto(s, b) == SubSeq(s, 1, Min(b, Len(s)))

\* f[lo] + f[lo+1] + ... + f[hi]: what a for loop over lo..hi appends to a list
\* when its body appends the elements of f[i] at index i.
RECURSIVE ConcatRange(_, _, _)
ConcatRange(f, lo, hi) ==
    IF lo > hi THEN << >> ELSE f[lo] \o ConcatRange(f, lo + 1, hi)

\* word.find(pat): least 0-based index at which pat occurs, -1 when absent.
RECURSIVE FindFrom(_, _, _)
FindFrom(word, pat, i) ==
    IF i + Len(pat) > Len(word) THEN -1
    ELSE IF Slice(word, i, i + Len(pat)) = pat THEN i
    ELSE FindFrom(word, pat, i + 1)

Find(word, pat) == FindFrom(word, pat, 0)

(***************************************************************************)
(* Telugu character definitions, sandhi_splitter.py lines 16-23.           *)
(***************************************************************************)
\* The characters of the string literal of line 16.  The literal spells the
\* conjunct KSSA as KA + VIRAMA + SSA, so U+0C4D is one of its characters.
TELUGU_CONSONANTS ==
    (3093 .. 3112) \cup (3114 .. 3123) \cup (3125 .. 3129) \cup {3149}

VIRAMA == 3149

VOWELS ==
    {3077, 3078, 3079, 3080, 3081, 3082, 3083, 3168, 3086, 3087, 3088,
     3090, 3091, 3092}

\* dependent vowel sign -> independent vowel
MATRA_MAP ==
    (3134 :> 3078) @@ (3135 :> 3079) @@ (3136 :> 3080) @@ (3137 :> 3081) @@
    (3138 :> 3082) @@ (3139 :> 3083) @@ (3140 :> 3168) @@ (3142 :> 3086) @@
    (3143 :> 3087) @@ (3144 :> 3088) @@ (3146 :> 3090) @@ (3147 :> 3091) @@
    (3148 :> 3092)

VOWEL_TO_MATRA ==
    [v \in Range(MATRA_MAP) |-> CHOOSE k \in DOMAIN MATRA_MAP : MATRA_MAP[k] = v]

(***************************************************************************)
(* find_consonant_cluster_start, lines 25-38.  ClusterScan is the while    *)
(* loop entered with loop variable j and start_index = -1.                 *)
(***************************************************************************)
RECURSIVE ClusterScan(_, _)
ClusterScan(word, j) ==
    IF j < 0 THEN -1
    ELSE LET current_char == At(word, j) IN
         IF current_char \in TELUGU_CONSONANTS
         THEN IF j = 0 \/ At(word, j - 1) # VIRAMA
              THEN j
              ELSE ClusterScan(word, j - 1)
         ELSE IF current_char # VIRAMA
              THEN -1
              ELSE ClusterScan(word, j - 1)

find_consonant_cluster_start(word, end_index) == ClusterScan(word, end_index - 1)

(***************************************************************************)
(* The twelve rules.  X_parts(word) is the list of (word1, word2) pairs a  *)
(* rule builds, in the order it appends them; split_X(word), further down, *)
(* is the list of f-strings it returns.                                    *)
(***************************************************************************)
\* lines 42-56
savarnadeergha_parts(word) ==
    LET sandhi_map == (3134 :> <<3077, << >> >>) @@ (3136 :> <<3079, <<3135>> >>) @@
                      (3138 :> <<3081, <<3137>> >>) @@ (3140 :> <<3083, <<3139>> >>)
        Body(i) ==
            LET char == At(word, i) IN
            IF char \in DOMAIN sandhi_map
            THEN LET start_of_cluster == find_consonant_cluster_start(word, i) IN
                 IF start_of_cluster # -1
                 THEN LET short_vowel_char == sandhi_map[char][1]
                          short_matra == sandhi_map[char][2]
                          prefix == Upto(word, start_of_cluster)
                          consonant == Slice(word, start_of_cluster, i)
                          word1 == IF short_matra # << >>
                                   THEN prefix \o consonant \o short_matra
                                   ELSE prefix \o consonant
                          word2 == <<short_vowel_char>> \o From(word, i + 1)
                      IN << <<word1, word2>> >>
                 ELSE << >>
            ELSE << >>
    IN ConcatRange([i \in 0 .. Len(word) - 1 |-> Body(i)], 0, Len(word) - 1)

\* lines 58-74
utva_ikara_parts(word) ==
    LET possible_elided_matras == <<3137, 3135>>
        Body(i) ==
            LET current_char == At(word, i) IN
            IF current_char \in DOMAIN MATRA_MAP
            THEN LET start_of_cluster == find_consonant_cluster_start(word, i) IN
                 IF start_of_cluster # -1
                 THEN LET prefix == Upto(word, start_of_cluster)
                          consonant == Slice(word, start_of_cluster, i)
                          word2 == <<MATRA_MAP[current_char]>> \o From(word, i + 1)
                      IN [n \in 1 .. Len(possible_elided_matras) |->
                            <<prefix \o consonant \o <<possible_elided_matras[n]>>, word2>>]
                 ELSE << >>
            ELSE << >>
    IN ConcatRange([i \in 1 .. Len(word) - 1 |-> Body(i)], 1, Len(word) - 1)

\* lines 76-89
yadagama_parts(word) ==
    LET Body(i) ==
            IF At(word, i) = 3119 /\ i > 1 /\ At(word, i - 1) = 3135
               /\ At(word, i - 2) \in TELUGU_CONSONANTS
            THEN IF i + 1 < Len(word) /\ At(word, i + 1) \notin DOMAIN MATRA_MAP
                    /\ At(word, i + 1) \in TELUGU_CONSONANTS
                 THEN << <<Upto(word, i), <<3077>> \o From(word, i + 1)>> >>
                 ELSE IF i + 1 < Len(word) /\ At(word, i + 1) \in DOMAIN MATRA_MAP
                 THEN << <<Upto(word, i),
                           <<MATRA_MAP[At(word, i + 1)]>> \o From(word, i + 2)>> >>
                 ELSE << >>
            ELSE << >>
    IN ConcatRange([i \in 1 .. Len(word) - 2 |-> Body(i)], 1, Len(word) - 2)

\* lines 91-97
amredita_parts(word) ==
    LET mid == Len(word) \div 2 IN
    IF Len(word) > 1 /\ Len(word) % 2 = 0 /\ Upto(word, mid) = From(word, mid)
    THEN << <<Upto(word, mid), From(word, mid)>> >>
    ELSE << >>

\* lines 99-114
gasada_dava_adesa_parts(word) ==
    LET reverse_map == (3095 :> 3093) @@ (3128 :> 3098) @@ (3105 :> 3103) @@
                       (3110 :> 3108) @@ (3125 :> 3114)
        Body(i) ==
            LET char == At(word, i) IN
            IF char \in DOMAIN reverse_map
            THEN LET start_of_cluster == find_consonant_cluster_start(word, i) IN
                 IF start_of_cluster # -1
                 THEN LET word1_candidate == Upto(word, start_of_cluster) IN
                      IF Len(word1_candidate) > 1
                      THEN LET original_consonant == reverse_map[char]
                               suffix == From(word, start_of_cluster)
                               word2 == <<original_consonant>> \o From(suffix, 1)
                           IN << <<word1_candidate, word2>> >>
                      ELSE << >>
                 ELSE << >>
            ELSE << >>
    IN ConcatRange([i \in 0 .. Len(word) - 1 |-> Body(i)], 0, Len(word) - 1)

\* lines 116-125
trika_parts(word) ==
    LET trika_vowels == (3077 :> 3078) @@ (3079 :> 3080) @@ (3086 :> 3087) IN
    IF Len(word) > 3 /\ At(word, 0) \in DOMAIN trika_vowels
    THEN IF At(word, 2) = 3149 /\ At(word, 1) = At(word, 3)
         THEN << << <<trika_vowels[At(word, 0)]>>, From(word, 3) >> >>
         ELSE << >>
    ELSE << >>

\* lines 127-142
guna_parts(word) ==
    LET sandhi_map == (3143 :> <<3079, 3080>>) @@ (3147 :> <<3081, 3082>>)
        Body(i) ==
            LET char == At(word, i) IN
            IF char \in DOMAIN sandhi_map
            THEN LET start_of_cluster == find_consonant_cluster_start(word, i) IN
                 IF start_of_cluster # -1
                 THEN LET prefix == Upto(word, start_of_cluster)
                          consonant == Slice(word, start_of_cluster, i)
                          word1_a == prefix \o consonant
                          vowel1 == sandhi_map[char][1]
                          vowel2 == sandhi_map[char][2]
                          suffix == From(word, i + 1)
                      IN << <<word1_a, <<vowel1>> \o suffix>>,
                            <<word1_a, <<vowel2>> \o suffix>> >>
                 ELSE << >>
            ELSE << >>
    IN ConcatRange([i \in 0 .. Len(word) - 1 |-> Body(i)], 0, Len(word) - 1)

\* lines 144-159
vriddhi_parts(word) ==
    LET sandhi_map == (3144 :> <<3087, 3088>>) @@ (3148 :> <<3091, 3092>>)
        Body(i) ==
            LET char == At(word, i) IN
            IF char \in DOMAIN sandhi_map
            THEN LET start_of_cluster == find_consonant_cluster_start(word, i) IN
                 IF start_of_cluster # -1
                 THEN LET prefix == Upto(word, start_of_cluster)
                          consonant == Slice(word, start_of_cluster, i)
                          word1_a == prefix \o consonant
                          vowel1 == sandhi_map[char][1]
                          vowel2 == sandhi_map[char][2]
                          suffix == From(word, i + 1)
                      IN << <<word1_a, <<vowel1>> \o suffix>>,
                            <<word1_a, <<vowel2>> \o suffix>> >>
                 ELSE << >>
            ELSE << >>
    IN ConcatRange([i \in 0 .. Len(word) - 1 |-> Body(i)], 0, Len(word) - 1)

\* lines 161-182
yanadesa_parts(word) ==
    LET adesa_map == (3119 :> 3135) @@ (3125 :> 3137) @@ (3120 :> 3139)
        Body(i) ==
            IF At(word, i) = 3149 /\ i + 1 < Len(word)
            THEN LET base_consonant_char == At(word, i - 1)
                     adesa_char == At(word, i + 1)
                 IN IF adesa_char \in DOMAIN adesa_map
                    THEN LET original_matra == adesa_map[adesa_char]
                             cluster_and_matra == From(word, i + 2)
                             has_matra == cluster_and_matra # << >>
                                          /\ Head(cluster_and_matra) \in DOMAIN MATRA_MAP
                             vowel_sound == IF has_matra
                                            THEN MATRA_MAP[Head(cluster_and_matra)]
                                            ELSE 3077
                             word1 == Upto(word, i - 1) \o <<base_consonant_char>>
                                      \o <<original_matra>>
                             word2 == <<vowel_sound>> \o
                                      (IF has_matra THEN From(cluster_and_matra, 1)
                                       ELSE cluster_and_matra)
                         IN << <<word1, word2>> >>
                    ELSE << >>
            ELSE << >>
    IN ConcatRange([i \in 1 .. Len(word) - 1 |-> Body(i)], 1, Len(word) - 1)

\* lines 184-199
jashtva_parts(word) ==
    LET reverse_map == (3095 :> 3093) @@ (3100 :> 3098) @@ (3105 :> 3103) @@
                       (3110 :> 3108) @@ (3116 :> 3114)
        Body(i) ==
            LET char == At(word, i) IN
            IF char \in DOMAIN reverse_map
            THEN LET has_matra == i + 1 < Len(word) /\ At(word, i + 1) \in DOMAIN MATRA_MAP
                     vowel_of_char == IF has_matra THEN MATRA_MAP[At(word, i + 1)] ELSE 3077
                     suffix_start_index == IF has_matra THEN i + 2 ELSE i + 1
                     word1 == Upto(word, i) \o <<reverse_map[char]>> \o <<VIRAMA>>
                     word2 == <<vowel_of_char>> \o From(word, suffix_start_index)
                 IN << <<word1, word2>> >>
            ELSE << >>
    IN ConcatRange([i \in 0 .. Len(word) - 1 |-> Body(i)], 0, Len(word) - 1)

\* lines 201-214
schutva_parts(word) ==
    LET cha == <<3098, 3149, 3098>>
        sha == <<3126, 3149, 3126>>
        first == IF Find(word, cha) # -1
                 THEN LET index == Find(word, cha) IN
                      << <<Upto(word, index) \o <<3108, 3149>>,
                           <<3098>> \o From(word, index + 2)>> >>
                 ELSE << >>
        second == IF Find(word, sha) # -1
                  THEN LET index == Find(word, sha) IN
                       << <<Upto(word, index) \o <<3128, 3149>>,
                            <<3126>> \o From(word, index + 2)>> >>
                  ELSE << >>
    IN first \o second

\* lines 216-231
anunasika_parts(word) ==
    LET reverse_map == (3097 :> 3093) @@ (3102 :> 3098) @@ (3107 :> 3103) @@
                       (3112 :> 3108) @@ (3118 :> 3114)
        nna == <<3112, 3149, 3112>>
        Body(i) ==
            IF At(word, i) = 3149 /\ At(word, i - 1) \in DOMAIN reverse_map
            THEN LET nasal == At(word, i - 1)
                     word1 == Upto(word, i - 1) \o <<reverse_map[nasal]>> \o <<VIRAMA>>
                     word2 == From(word, i + 1)
                 IN << <<word1, word2>> >>
            ELSE << >>
        last == IF Find(word, nna) # -1
                THEN LET index == Find(word, nna) IN
                     << <<Upto(word, index) \o <<3108, 3149>>,
                          <<3112>> \o From(word, index + 2)>> >>
                ELSE << >>
    IN ConcatRange([i \in 1 .. Len(word) - 1 |-> Body(i)], 1, Len(word) - 1) \o last

(***************************************************************************)
(* The f-string f"'{word1}' + '{word2}'" every rule appends, and the lists *)
(* the rule functions return.                                              *)
(***************************************************************************)
FString(word1, word2) == <<39>> \o word1 \o <<39, 32, 43, 32, 39>> \o word2 \o <<39>>

FStrings(parts) == [n \in 1 .. Len(parts) |-> FString(parts[n][1], parts[n][2])]

split_savarnadeergha(word) == FStrings(savarnadeergha_parts(word))

split_utva_ikara_sandhi(word) == FStrings(utva_ikara_parts(word))

split_yadagama_sandhi(word) == FStrings(yadagama_parts(word))

split_amredita_sandhi(word) == FStrings(amredita_parts(word))

split_gasada_dava_adesa(word) == FStrings(gasada_dava_adesa_parts(word))

split_trika(word) == FStrings(trika_parts(word))

split_guna(word) == FStrings(guna_parts(word))

split_vriddhi(word) == FStrings(vriddhi_parts(word))

split_yanadesa(word) == FStrings(yanadesa_parts(word))

split_jashtva(word) == FStrings(jashtva_parts(word))

split_schutva(word) == FStrings(schutva_parts(word))

split_anunasika(word) == FStrings(anunasika_parts(word))

(***************************************************************************)
(* find_all_splits, lines 233-249.  A Python dict keeps insertion order,   *)
(* so a dict is the sequence of its (key, value) items.                    *)
(***************************************************************************)
RuleNames ==
    {"savarnadeergha", "guna", "vriddhi", "yanadesa", "utva_ikara", "yadagama",
     "gasada_dava", "amredita", "trika", "jashtva", "schutva", "anunasika"}

\* the dict literal of lines 235-248
AllSplits(word) ==
    << <<"savarnadeergha", split_savarnadeergha(word)>>,
       <<"guna", split_guna(word)>>,
       <<"vriddhi", split_vriddhi(word)>>,
       <<"yanadesa", split_yanadesa(word)>>,
       <<"utva_ikara", split_utva_ikara_sandhi(word)>>,
       <<"yadagama", split_yadagama_sandhi(word)>>,
       <<"gasada_dava", split_gasada_dava_adesa(word)>>,
       <<"amredita", split_amredita_sandhi(word)>>,
       <<"trika", split_trika(word)>>,
       <<"jashtva", split_jashtva(word)>>,
       <<"schutva", split_schutva(word)>>,
       <<"anunasika", split_anunasika(word)>> >>

\* list(set(v)): the elements of S, each once.  The order is the iteration
\* order of a set of str, which follows the per-process string hash seed, so
\* every order is an outcome.
RECURSIVE ListOfSet(_)
ListOfSet(S) ==
    IF S = {} THEN { << >> }
    ELSE UNION { { <<x>> \o l : l \in ListOfSet(S \ {x}) } : x \in S }

\* {k: list(set(v)) for k, v in items if v}: the dicts line 249 can build.
RECURSIVE DictComprehension(_)
DictComprehension(items) ==
    IF items = << >> THEN { << >> }
    ELSE LET k == Head(items)[1]
             v == Head(items)[2]
             rest == DictComprehension(Tail(items))
         IN IF v # << >>
            THEN { << <<k, l>> >> \o r : l \in ListOfSet(Range(v)), r \in rest }
            ELSE rest

\* line 249 with list(v) in place of list(set(v))
RECURSIVE DictComprehensionNoSet(_)
DictComprehensionNoSet(items) ==
    IF items = << >> THEN { << >> }
    ELSE LET k == Head(items)[1]
             v == Head(items)[2]
             rest == DictComprehensionNoSet(Tail(items))
         IN IF v # << >>
            THEN { << <<k, v>> >> \o r : r \in rest }
            ELSE rest

find_all_splits_no_set(word) == DictComprehensionNoSet(AllSplits(word))

\* The set of values find_all_splits(word) can return.
find_all_splits(word) == DictComprehension(AllSplits(word))

(***************************************************************************)
(* get_best_frequency_split, train_pipeline.py lines 54-85.                *)
(***************************************************************************)
\* str.split(sep) for a one-character sep
RECURSIVE Split(_, _)
Split(s, sep) ==
    LET index == Find(s, <<sep>>) IN
    IF index = -1 THEN <<s>>
    ELSE <<Upto(s, index)>> \o Split(From(s, index + 1), sep)

\* the characters str.strip() removes when called without an argument
WHITESPACE ==
    (9 .. 13) \cup (28 .. 32) \cup {133, 160, 5760} \cup (8192 .. 8202) \cup
    {8232, 8233, 8239, 8287, 12288}

RECURSIVE LStrip(_, _)
LStrip(s, chars) ==
    IF s # << >> /\ Head(s) \in chars THEN LStrip(Tail(s), chars) ELSE s

RECURSIVE RStrip(_, _)
RStrip(s, chars) ==
    IF s # << >> /\ s[Len(s)] \in chars THEN RStrip(SubSeq(s, 1, Len(s) - 1), chars)
    ELSE s

Strip(s, chars) == RStrip(LStrip(s, chars), chars)

\* line 66: [p.strip().strip("'") for p in split_str.split('+')]
parts_of(split_str) ==
    LET pieces == Split(split_str, 43) IN
    [n \in 1 .. Len(pieces) |-> Strip(Strip(pieces[n], WHITESPACE), {39})]

\* lines 69-76
score_of(part1, part2, vocab) ==
    LET p1_in == part1 \in DOMAIN vocab
        p2_in == part2 \in DOMAIN vocab
    IN IF p1_in /\ p2_in THEN 1000 + Min(vocab[part1], vocab[part2])
       ELSE IF p1_in \/ p2_in
       THEN 100 + (IF p1_in THEN vocab[part1] ELSE vocab[part2])
       ELSE 0

\* the split_str values in the order the nested loops of lines 64-65 visit them
split_strs(ps) ==
    ConcatRange([n \in 1 .. Len(ps) |-> ps[n][2]], 1, Len(ps))

\* the loop body without the len(parts) == 2 guard of line 67
scored_split_unchecked(split_str, vocab) ==
    LET parts == parts_of(split_str)
        score == score_of(parts[1], parts[2], vocab)
    IN IF score > 0 THEN << [parts |-> parts, score |-> score] >> ELSE << >>

\* lines 66-79 for one split_str: what it appends to valid_splits
scored_split(split_str, vocab) ==
    LET parts == parts_of(split_str) IN
    IF Len(parts) = 2
    THEN LET score == score_of(parts[1], parts[2], vocab) IN
         IF score > 0 THEN << [parts |-> parts, score |-> score] >> ELSE << >>
    ELSE << >>

\* valid_splits after the loops of lines 63-79
valid_splits_of(ps, vocab) ==
    LET strs == split_strs(ps)
        Body(n) == scored_split(strs[n], vocab)
    IN ConcatRange([i \in 1 .. Len(strs) |-> Body(i)], 1, Len(strs))

\* max(valid_splits, key=lambda x: x['score']): the first element of maximal score
best_split_of(valid) ==
    LET n == CHOOSE n \in 1 .. Len(valid) :
                 /\ \A m \in 1 .. Len(valid) : valid[m].score <= valid[n].score
                 /\ \A m \in 1 .. n - 1 : valid[m].score < valid[n].score
    IN valid[n]

\* lines 60-61 and 81-85, given the dict find_all_splits returned at line 59
get_best_frequency_split(word, vocab, ps) ==
    IF ps = << >> THEN <<word>>
    ELSE LET valid == valid_splits_of(ps, vocab) IN
         IF valid = << >> THEN <<word>> ELSE best_split_of(valid).parts

(***************************************************************************)
(* Inputs.                                                                 *)
(***************************************************************************)
MaxLen == 4

\* KA, GA, VIRAMA, the matra AA, the apostrophe and the plus sign
Alphabet == {3093, 3095, 3149, 3134, 39, 43}

\* One word or more per rule, words on which a rule returns one candidate
\* twice, a doubled Latin word, and a word with a space.
Samples ==
    { <<3093, 3143>>,                                \* guna
      <<3093, 3144>>,                                \* vriddhi
      <<3093, 3149, 3119>>,                          \* yanadesa
      <<3093, 3149, 3125, 3134>>,
      <<3093, 3135, 3119, 3093>>,                    \* yadagama
      <<3093, 3135, 3119, 3134>>,
      <<3077, 3093, 3149, 3093, 3105>>,              \* trika
      <<3118, 3098, 3149, 3098>>,                    \* schutva
      <<3126, 3149, 3126>>,
      <<3077, 3112, 3149, 3112>>,                    \* anunasika
      <<3077, 3120, 3103, 3135, 3077, 3120, 3103, 3135>>,  \* amredita
      <<3077, 3078, 3093, 3095>>,                    \* gasada_dava
      <<3093, 3093, 3149, 3095, 3095>>,              \* gasada_dava, one candidate twice
      <<3077, 3095, 3149, 3095, 3095, 3095>>,
      <<3093, 3136>>,                                \* savarnadeergha
      <<97, 97>>,
      <<32, 3093, 3134>> }

Words == UNION { [1 .. n -> Alphabet] : n \in 0 .. MaxLen } \cup Samples

\* KA + matra U, and the vowel AA
VocabKeys == { <<3093, 3137>>, <<3078>> }

Freqs == {1, 2000}

Vocabs == UNION { [K -> Freqs] : K \in SUBSET VocabKeys }

(***************************************************************************)
(* State: one word, and the arguments and the result of the call made on   *)
(* it.                                                                     *)
(***************************************************************************)
VARIABLES pc, word, end_index, start_index, vocab, all_splits, possible_splits,
          valid_splits, result

vars == <<pc, word, end_index, start_index, vocab, all_splits, possible_splits,
          valid_splits, result>>

Init ==
    /\ pc = "ready"
    /\ word \in Words
    /\ end_index = 0
    /\ start_index = -1
    /\ vocab = [k \in {} |-> 1]
    /\ all_splits = << >>
    /\ possible_splits = << >>
    /\ valid_splits = << >>
    /\ result = << >>

\* find_consonant_cluster_start(word, end_index)
FindConsonantClusterStart ==
    /\ pc = "ready"
    /\ \E e \in 0 .. Len(word) :
          /\ end_index' = e
          /\ start_index' = find_consonant_cluster_start(word, e)
    /\ pc' = "cluster_returned"
    /\ UNCHANGED <<word, vocab, all_splits, possible_splits, valid_splits, result>>

\* find_all_splits(word)
FindAllSplits ==
    /\ pc = "ready"
    /\ all_splits' = AllSplits(word)
    /\ possible_splits' \in find_all_splits(word)
    /\ pc' = "splits_returned"
    /\ UNCHANGED <<word, end_index, start_index, vocab, valid_splits, result>>

\* get_best_frequency_split(word, vocab)
GetBestFrequencySplit ==
    /\ pc = "ready"
    /\ \E v \in Vocabs, ps \in find_all_splits(word) :
          /\ vocab' = v
          /\ all_splits' = AllSplits(word)
          /\ possible_splits' = ps
          /\ valid_splits' = IF ps = << >> THEN << >> ELSE valid_splits_of(ps, v)
          /\ result' = get_best_frequency_split(word, v, ps)
    /\ pc' = "best_returned"
    /\ UNCHANGED <<word, end_index, start_index>>

Next == FindConsonantClusterStart \/ FindAllSplits \/ GetBestFrequencySplit

Spec == Init /\ [][Next]_vars

(***************************************************************************)
(* Vocabulary used to state the properties.                                *)
(***************************************************************************)
\* the (word1, word2) pairs the twelve rules build for a word, by rule
AllParts(w) ==
    << <<"savarnadeergha", savarnadeergha_parts(w)>>,
       <<"guna", guna_parts(w)>>,
       <<"vriddhi", vriddhi_parts(w)>>,
       <<"yanadesa", yanadesa_parts(w)>>,
       <<"utva_ikara", utva_ikara_parts(w)>>,
       <<"yadagama", yadagama_parts(w)>>,
       <<"gasada_dava", gasada_dava_adesa_parts(w)>>,
       <<"amredita", amredita_parts(w)>>,
       <<"trika", trika_parts(w)>>,
       <<"jashtva", jashtva_parts(w)>>,
       <<"schutva", schutva_parts(w)>>,
       <<"anunasika", anunasika_parts(w)>> >>

\* every candidate some rule generated for the word
Generated(w) == UNION { Range(AllParts(w)[n][2]) : n \in 1 .. 12 }

BothPresent(p, v) == p[1] \in DOMAIN v /\ p[2] \in DOMAIN v

IsString(s) == DOMAIN s = 1 .. Len(s) /\ \A n \in DOMAIN s : s[n] \in Nat

\* code points of the Telugu block, U+0C00 .. U+0C7F
IsTelugu(c) == c \in 3072 .. 3199

NoTelugu(w) == \A n \in 1 .. Len(w) : ~IsTelugu(w[n])

SplitsReturned == pc \in {"splits_returned", "best_returned"}

\* the candidates lines 66-68 unpack into part1, part2, in loop order
ScoredCandidates(ps) ==
    LET strs == split_strs(ps)
        Body(n) == IF Len(parts_of(strs[n])) = 2 THEN <<parts_of(strs[n])>> ELSE << >>
    IN ConcatRange([i \in 1 .. Len(strs) |-> Body(i)], 1, Len(strs))

(***************************************************************************)
(* C1.  Totality: for every word and vocabulary the call of                *)
(* get_best_frequency_split has an outcome, and what it returns is a list  *)
(* of one or two strings: [word] itself, or a two-element list.            *)
(***************************************************************************)
C1_Totality ==
    /\ pc = "ready" =>
          \A v \in Vocabs :
             \E ps \in find_all_splits(word) :
                Len(get_best_frequency_split(word, v, ps)) \in {1, 2}
    /\ pc = "best_returned" =>
          /\ \A n \in 1 .. Len(result) : IsString(result[n])
          /\ result = <<word>> \/ Len(result) = 2

\* a two-part split was returned for a word holding a character that is not Telugu
C1_Witness ==
    /\ pc = "best_returned"
    /\ Len(result) = 2
    /\ \E n \in 1 .. Len(word) : ~IsTelugu(word[n])

(***************************************************************************)
(* C2.  Tier ordering: whenever some generated candidate has both parts in *)
(* the vocabulary, the returned split is a generated candidate with both   *)
(* parts in the vocabulary, whatever the frequencies.                      *)
(***************************************************************************)
C2_TierOrdering ==
    pc = "best_returned" =>
       ((\E p \in Generated(word) : BothPresent(p, vocab)) =>
           \E q \in Generated(word) : BothPresent(q, vocab) /\ result = q)

(***************************************************************************)
(* C3.  Selection and fallback: [word] is returned exactly when no         *)
(* generated candidate has a part in the vocabulary; otherwise the parts   *)
(* of a generated candidate of maximal score are returned.                 *)
(***************************************************************************)
C3_SelectionAndFallback ==
    pc = "best_returned" =>
       LET scoring == { p \in Generated(word) : score_of(p[1], p[2], vocab) > 0 } IN
       /\ result = <<word>> <=> scoring = {}
       /\ scoring # {} =>
             \E p \in scoring :
                /\ result = p
                /\ \A q \in scoring :
                      score_of(q[1], q[2], vocab) <= score_of(p[1], p[2], vocab)

(***************************************************************************)
(* C4.  Malformed input: for a word that is empty or holds no Telugu code  *)
(* point every rule returns no candidate, find_all_splits returns the      *)
(* empty mapping and get_best_frequency_split returns [word].              *)
(***************************************************************************)
C4_MalformedInput ==
    (SplitsReturned /\ NoTelugu(word)) =>
       /\ \A n \in 1 .. Len(all_splits) : all_splits[n][2] = << >>
       /\ possible_splits = << >>
       /\ pc = "best_returned" => result = <<word>>

(***************************************************************************)
(* C5.  Deterministic tie-break: the returned split is a function of the   *)
(* word and the vocabulary alone; it is the same under every iteration     *)
(* order of the de-duplicating sets built in find_all_splits.              *)
(***************************************************************************)
C5_Deterministic ==
    pc = "best_returned" =>
       \A ps \in find_all_splits(word) :
          get_best_frequency_split(word, vocab, ps) = result

(***************************************************************************)
(* C6.  Cluster-start contract: find_consonant_cluster_start returns -1 or *)
(* an index s < end_index where word[s] is a consonant and not a virama,   *)
(* is not preceded by a virama, and is followed up to end_index only by    *)
(* consonants and viramas.                                                 *)
(***************************************************************************)
C6_ClusterStart ==
    pc = "cluster_returned" =>
       \/ start_index = -1
       \/ /\ 0 <= start_index /\ start_index < end_index
          /\ At(word, start_index) \in TELUGU_CONSONANTS
          /\ At(word, start_index) # VIRAMA
          /\ start_index = 0 \/ At(word, start_index - 1) # VIRAMA
          /\ \A k \in start_index + 1 .. end_index - 1 :
                At(word, k) \in TELUGU_CONSONANTS \cup {VIRAMA}

(***************************************************************************)
(* C7.  Rule Catalog output shape: the keys of find_all_splits(word) are   *)
(* distinct rule names, a rule is a key exactly when its function returned *)
(* a candidate, and each value is non-empty, repeats no candidate and      *)
(* holds exactly the candidates the rule function returned.                *)
(***************************************************************************)
C7_CatalogShape ==
    SplitsReturned =>
       /\ \A n \in 1 .. Len(possible_splits) : possible_splits[n][1] \in RuleNames
       /\ \A m, n \in 1 .. Len(possible_splits) :
             m # n => possible_splits[m][1] # possible_splits[n][1]
       /\ \A r \in 1 .. Len(all_splits) :
             (all_splits[r][2] # << >>) <=>
                \E n \in 1 .. Len(possible_splits) :
                   possible_splits[n][1] = all_splits[r][1]
       /\ \A n \in 1 .. Len(possible_splits) :
             LET v == possible_splits[n][2] IN
             /\ v # << >>
             /\ \A i, j \in 1 .. Len(v) : i # j => v[i] # v[j]
             /\ \E r \in 1 .. Len(all_splits) :
                   /\ all_splits[r][1] = possible_splits[n][1]
                   /\ Range(v) = Range(all_splits[r][2])

\* find_all_splits returned some rules and left others out, and a rule that
\* returned one candidate twice has it once in its value
C7_Witness ==
    /\ pc = "splits_returned"
    /\ Len(possible_splits) \in 2 .. 11
    /\ \E r \in 1 .. Len(all_splits), n \in 1 .. Len(possible_splits) :
          /\ possible_splits[n][1] = all_splits[r][1]
          /\ \E i, j \in 1 .. Len(all_splits[r][2]) :
                i # j /\ all_splits[r][2][i] = all_splits[r][2][j]
          /\ Len(possible_splits[n][2]) < Len(all_splits[r][2])

(***************************************************************************)
(* C8.  Duplicate suppression: the candidates get_best_frequency_split     *)
(* scores hold no (Part1, Part2) pair twice, within a rule or across       *)
(* rules.                                                                  *)
(***************************************************************************)
C8_NoDuplicateCandidates ==
    pc = "best_returned" =>
       LET c == ScoredCandidates(possible_splits) IN
       \A i, j \in 1 .. Len(c) : i # j => c[i] # c[j]

(***************************************************************************)
(* C9.  Gasada-dava reverts the trigger consonant itself: every candidate  *)
(* of split_gasada_dava_adesa has a Part1 of two or more characters and a  *)
(* Part2 headed by the voiceless counterpart of a trigger word[i], and     *)
(* putting word[i] back at the head of Part2 after Part1 gives the word.   *)
(***************************************************************************)
C9_GasadaRevertsTrigger ==
    SplitsReturned =>
       LET voiceless == (3095 :> 3093) @@ (3128 :> 3098) @@ (3105 :> 3103) @@
                        (3110 :> 3108) @@ (3125 :> 3114)
       IN \A p \in Range(gasada_dava_adesa_parts(word)) :
             \E i \in 0 .. Len(word) - 1 :
                /\ At(word, i) \in DOMAIN voiceless
                /\ Len(p[1]) >= 2
                /\ p[2] # << >>
                /\ Head(p[2]) = voiceless[At(word, i)]
                /\ p[1] \o <<At(word, i)>> \o Tail(p[2]) = word

(***************************************************************************)
(* C10.  Candidate encoding round-trip: every (Part1, Part2) a rule builds *)
(* and encodes as "'Part1' + 'Part2'" is decoded by                        *)
(* get_best_frequency_split into the same two parts.                       *)
(***************************************************************************)
C10_EncodingRoundTrip ==
    SplitsReturned =>
       \A p \in Generated(word) : parts_of(FString(p[1], p[2])) = p

====
